---- MODULE Spec2Model ----
(***************************************************************************)
(* A model of the terminal game in src/main.py: the keyboard listener      *)
(* thread (SystemInputs), the menus (show_menu, load_player_data), the     *)
(* main loop with its four phases per tick (draw, enemy advance, attack /  *)
(* box, movement), the exit handler and the save file.                     *)
(***************************************************************************)
EXTENDS Integers, Sequences, FiniteSets, TLC

\* ---------------------------------------------------------------- bounds

\* terminal widths of the sessions with the listener thread modelled
MinWidth == 2
MaxWidth == 3
\* terminal width of the sessions wide enough for generate_enemies to spawn
WideWidth == 60
\* random draws: at most this many enemies / boxes come out of one generation,
\* and boxes only come out in columns 0..MaxBoxColumn
MaxEnemies == 2
MaxBoxes == 1
MaxBoxColumn == 0
\* counters: SCORE is followed up to MaxScore, PLAYER_LIVES within
\* -LivesBelowZero..MaxLives, the menu recursion up to MaxDepth
MaxScore == 100
MaxLives == 3
LivesBelowZero == 1
MaxDepth == 1
\* the hints printed in one session are counted up to MaxHints
MaxHints == 2

\* ------------------------------------------------------ program constants

START_RANGE == 50
END_MARGIN == 5
KILL_SCORE == 100
BOOST_SCORE == 50
START_LIVES == 3

ALLOWED_KEYS == {"a", "d", "e", "shift_l", "shift_r"}
\* one key outside ALLOWED_KEYS stands for all the others
AllKeys == ALLOWED_KEYS \cup {"q"}
ShiftKeys == {"shift_l", "shift_r"}
Rewards == {"Extra Life", "Score Boost", "Speed Boost", "Penalty"}
MenuChoices == {"1", "2", "3", "other"}

VARIABLES
    pc,                   \* position of the main thread
    depth,                \* show_menu calls still open below load_player_data
    PLAYER_POSITION, PLAYER_LIVES, SCORE, enemies, boxes,
    GAME_STATUS, ATTACK_MESSAGE_SHOWN,
    columns,              \* map_instance.columns
    keys_pressed, shift_pressed, listening,
    OLD_SETTINGS, echo, cursor,
    file,                 \* data.json
    exitBy,               \* how the process ended: "", "signal", "menu", "loop", "error"
    origin,               \* how the session's game began: "", "new", "loaded"
    tickKeys, tickShift,  \* "a", "d" and shift_pressed as they stood at the tick's
                          \* first read of the listener, until the tick ends
    newMap,               \* check_new_map has fired in the tick under way
    boxOpened,            \* a box has been opened in the tick under way
    hintsShown            \* how often "You can attack" was printed

gameVars == <<PLAYER_POSITION, PLAYER_LIVES, SCORE, enemies, boxes,
              GAME_STATUS, ATTACK_MESSAGE_SHOWN>>
inputVars == <<keys_pressed, shift_pressed>>
termVars == <<OLD_SETTINGS, echo, cursor>>
tickVars == <<tickKeys, tickShift, newMap, boxOpened, hintsShown>>
vars == <<pc, depth, PLAYER_POSITION, PLAYER_LIVES, SCORE, enemies, boxes,
          GAME_STATUS, ATTACK_MESSAGE_SHOWN, columns, keys_pressed,
          shift_pressed, listening, OLD_SETTINGS, echo, cursor, file, exitBy,
          origin, tickKeys, tickShift, newMap, boxOpened, hintsShown>>

\* ------------------------------------------------------------ sequences

InSeq(x, s) == \E i \in 1..Len(s) : s[i] = x

\* list.remove(x): the first occurrence goes
RemoveFirst(s, x) ==
    LET i == CHOOSE j \in 1..Len(s) : s[j] = x /\ \A k \in 1..(j-1) : s[k] # x
    IN  SubSeq(s, 1, i-1) \o SubSeq(s, i+1, Len(s))

RECURSIVE SortedSeq(_)
SortedSeq(S) ==
    IF S = {} THEN <<>>
    ELSE LET m == CHOOSE x \in S : \A y \in S : x <= y
         IN  <<m>> \o SortedSeq(S \ {m})

\* ------------------------------------------------------- json (save file)

DigitChars == <<"0", "1", "2", "3", "4", "5", "6", "7", "8", "9">>
CharDigit(c) == (CHOOSE i \in 1..10 : DigitChars[i] = c) - 1

RECURSIVE NatText(_)
NatText(n) ==
    IF n < 10 THEN <<DigitChars[n + 1]>>
    ELSE NatText(n \div 10) \o <<DigitChars[(n % 10) + 1]>>

\* json.dump of an int: its decimal digits, "-" first when negative
IntText(n) == IF n < 0 THEN <<"-">> \o NatText(0 - n) ELSE NatText(n)

RECURSIVE TextNat(_)
TextNat(t) ==
    IF Len(t) = 0 THEN 0
    ELSE 10 * TextNat(SubSeq(t, 1, Len(t) - 1)) + CharDigit(t[Len(t)])

\* json.load of an int
TextInt(t) == IF t[1] = "-" THEN 0 - TextNat(Tail(t)) ELSE TextNat(t)

NoData == [k \in {} |-> <<>>]
NoFile == [kind |-> "absent", data |-> NoData]
CorruptFile == [kind |-> "corrupt", data |-> NoData]

\* a save without the enemies
DumpWithoutEnemies(position, score, lives, es) ==
    [kind |-> "json",
     data |-> [k \in {"position", "score", "lives"} |->
                 CASE k = "position" -> IntText(position)
                   [] k = "score" -> IntText(score)
                   [] k = "lives" -> IntText(lives)]]

\* save_player_data: the four fields, as text
Dump(position, score, lives, es) ==
    [kind |-> "json",
     data |-> [k \in {"position", "score", "lives", "enemies"} |->
                 CASE k = "position" -> IntText(position)
                   [] k = "score" -> IntText(score)
                   [] k = "lives" -> IntText(lives)
                   [] k = "enemies" -> [i \in 1..Len(es) |-> IntText(es[i])]]]

\* player_data.get(key, default) of an int field
GetInt(f, k, default) ==
    IF k \in DOMAIN f.data THEN TextInt(f.data[k]) ELSE default

\* player_data.get("enemies", [])
GetEnemies(f) ==
    IF "enemies" \in DOMAIN f.data
    THEN [i \in 1..Len(f.data["enemies"]) |-> TextInt(f.data["enemies"][i])]
    ELSE <<>>

\* ------------------------------------------------------- terminal echo

\* SystemCall.disable_echo: the settings it returns, i.e. those in force
SavedSettings(e) == IF e THEN "echo_on" ELSE "echo_off"

\* SystemCall.restore_echo: the echo flag after it, called with `old`
RestoredEcho(old, e) == IF old # "None" THEN old = "echo_on" ELSE e

\* ------------------------------------------------------- world generator

Min(a, b) == IF a < b THEN a ELSE b

\* generate_enemies without the margin at the right edge
GenEnemiesNoMargin(cols) ==
    { SortedSeq(S) : S \in { T \in SUBSET (START_RANGE..(cols - 1)) :
                               Cardinality(T) <= MaxEnemies } }

\* Map.generate_enemies: every column of range(50, columns - 5) may get one
GenEnemies(cols) ==
    { SortedSeq(S) : S \in { T \in SUBSET (START_RANGE..(cols - END_MARGIN - 1)) :
                               Cardinality(T) <= MaxEnemies } }

\* Map.generate_boxes: every column of range(columns) may get one
GenBoxes(cols) ==
    { SortedSeq(S) : S \in { T \in SUBSET (0..Min(cols - 1, MaxBoxColumn)) :
                               Cardinality(T) <= MaxBoxes } }

\* ------------------------------------------------------------ game rules

\* Map.move_enemies_towards_player: the loop over `es` from index i, with
\* new_enemies and PLAYER_LIVES as they stand; the early return leaves the
\* global list as it was
RECURSIVE MoveLoop(_, _, _, _, _)
MoveLoop(es, i, new, lives, pos) ==
    IF i > Len(es) THEN [enemies |-> new, lives |-> lives, over |-> FALSE]
    ELSE IF es[i] < pos THEN MoveLoop(es, i + 1, Append(new, es[i] + 1), lives, pos)
    ELSE IF es[i] > pos THEN MoveLoop(es, i + 1, Append(new, es[i] - 1), lives, pos)
    ELSE IF lives - 1 <= 0 THEN [enemies |-> es, lives |-> lives - 1, over |-> TRUE]
    ELSE MoveLoop(es, i + 1, new, lives - 1, pos)

MoveEnemies(es, lives, pos) == MoveLoop(es, 1, <<>>, lives, pos)

\* the attack looking right before left
AttackTargetRightFirst(pos, es) ==
    IF InSeq(pos, es) THEN <<pos>>
    ELSE IF InSeq(pos + 1, es) THEN <<pos + 1>>
    ELSE IF InSeq(pos - 1, es) THEN <<pos - 1>>
    ELSE <<>>

\* the position the attack key hits, as a list of one: the player's, then
\* left, then right; empty when no enemy is there
AttackTarget(pos, es) ==
    IF InSeq(pos, es) THEN <<pos>>
    ELSE IF InSeq(pos - 1, es) THEN <<pos - 1>>
    ELSE IF InSeq(pos + 1, es) THEN <<pos + 1>>
    ELSE <<>>

\* a box that stays on the map after it was opened
OpenedBoxKept(bs, pos) == bs

\* boxes.remove(PLAYER_POSITION)
OpenedBox(bs, pos) == RemoveFirst(bs, pos)

\* the movement block without the test of the "d" key
MovePlayerNoKeyTest(pos, a, d, shift, cols) ==
    IF a /\ pos > 0 THEN (IF shift THEN pos - 2 ELSE pos - 1)
    ELSE IF pos < cols - 1 THEN (IF shift THEN pos + 2 ELSE pos + 1)
    ELSE pos

\* the movement at the end of a tick
MovePlayer(pos, a, d, shift, cols) ==
    IF a /\ pos > 0 THEN (IF shift THEN pos - 2 ELSE pos - 1)
    ELSE IF d /\ pos < cols - 1 THEN (IF shift THEN pos + 2 ELSE pos + 1)
    ELSE pos

\* Map.check_attack_option: whether it prints "You can attack"
HintPrinted(pos, es, shown) ==
    (InSeq(pos, es) \/ InSeq(pos - 1, es) \/ InSeq(pos + 1, es)) /\ ~shown

\* a latch that is never set
HintLatchUnset(pos, es, shown) == shown

\* Map.check_attack_option: the latch after it
HintLatch(pos, es, shown) ==
    shown \/ InSeq(pos, es) \/ InSeq(pos - 1, es) \/ InSeq(pos + 1, es)

\* ------------------------------------------------------ listener thread

\* SystemInputs.on_press
on_press(key) ==
    /\ listening
    /\ pc \notin {"exited", "done", "crashed"}
    /\ keys_pressed' = IF key \in ALLOWED_KEYS THEN keys_pressed \cup {key}
                       ELSE keys_pressed
    /\ shift_pressed' = IF key \in ShiftKeys THEN TRUE ELSE shift_pressed
    /\ UNCHANGED <<pc, depth, gameVars, columns, origin, listening, termVars, file,
                   exitBy, tickVars>>

\* a release written with set.discard: no KeyError, the flag always cleared
ReleaseDiscard(keys, shift, key) ==
    [keys |-> keys \ {key},
     shift |-> IF key \in ShiftKeys THEN FALSE ELSE shift,
     exc |-> ""]

\* the try block of on_release: the set and the flag it leaves and the
\* exception it ends with; remove() of a key that is not held raises KeyError,
\* which skips the rest of the block
ReleaseTry(keys, shift, key) ==
    IF key \in ALLOWED_KEYS /\ key \notin keys
    THEN [keys |-> keys, shift |-> shift, exc |-> "KeyError"]
    ELSE [keys |-> keys \ {key},
          shift |-> IF key \in ShiftKeys THEN FALSE ELSE shift,
          exc |-> ""]

\* on_release as a whole: `except KeyError: pass`, anything else would leave
\* the callback as an error
Release(keys, shift, key) ==
    LET r == ReleaseTry(keys, shift, key)
    IN  [keys |-> r.keys, shift |-> r.shift, error |-> r.exc \notin {"", "KeyError"}]

\* SystemInputs.on_release; an error leaving the callback ends the listener
on_release(key) ==
    /\ listening
    /\ pc \notin {"exited", "done", "crashed"}
    /\ LET r == Release(keys_pressed, shift_pressed, key)
       IN  /\ keys_pressed' = r.keys
           /\ shift_pressed' = r.shift
           /\ listening' = ~r.error
    /\ UNCHANGED <<pc, depth, gameVars, columns, origin, termVars, file, exitBy, tickVars>>

\* ----------------------------------------------------------------- exit

Running == pc \notin {"exited", "done", "crashed", "aborted"}

\* SystemCall.handle_exit_signal, called with OLD_SETTINGS = old: show_cursor,
\* restore_echo, save_player_data, sys.exit(0)
HandleExit(old, by) ==
    /\ cursor' = TRUE
    /\ echo' = RestoredEcho(old, echo)
    /\ OLD_SETTINGS' = old
    /\ file' = Dump(PLAYER_POSITION, SCORE, PLAYER_LIVES, enemies)
    /\ pc' = "exited"
    /\ exitBy' = by
    /\ UNCHANGED <<depth, gameVars, columns, origin, inputVars, listening, tickVars>>

\* SIGINT or SIGTSTP, delivered to the main thread wherever it is
Signal ==
    /\ Running
    /\ HandleExit(OLD_SETTINGS, "signal")

\* ---------------------------------------------------------------- menus

\* show_menu returns with GAME_STATUS set: to the main loop, or to the
\* load_player_data that called it on "3. Back", which prompts again
\* (restore_echo before its input)
ReturnFromMenu(saved) ==
    IF depth = 0
    THEN /\ pc' = "draw"
         /\ OLD_SETTINGS' = saved
         /\ echo' = FALSE
         /\ UNCHANGED depth
    ELSE /\ pc' = "menu2"
         /\ depth' = depth - 1
         /\ OLD_SETTINGS' = "None"
         /\ echo' = RestoredEcho(saved, FALSE)

\* the new-game defaults of load_player_data
NewGame ==
    /\ PLAYER_POSITION' = 0
    /\ SCORE' = 0
    /\ PLAYER_LIVES' = START_LIVES
    /\ enemies' = <<>>
    /\ GAME_STATUS' = TRUE
    /\ origin' = "new"
    /\ UNCHANGED <<boxes, ATTACK_MESSAGE_SHOWN>>

\* show_menu, at its input(): the prompt runs with echo restored and
\* OLD_SETTINGS = None, disable_echo follows the input
MenuStart ==
    /\ pc = "menu"
    /\ IF file.kind = "absent"
       THEN /\ NewGame
            /\ ReturnFromMenu(SavedSettings(echo))
       ELSE /\ pc' = "menu2"
            /\ UNCHANGED <<depth, gameVars, termVars, origin>>
    /\ UNCHANGED <<columns, inputVars, listening, cursor, file, exitBy, tickVars>>

\* "2" (help) and every invalid choice lead back to the same prompt
MenuAgain(choice) ==
    /\ pc \in {"menu", "menu2"}
    /\ choice \in (IF pc = "menu" THEN {"2", "other"} ELSE {"other"})
    /\ UNCHANGED vars

MenuExit ==
    /\ pc = "menu"
    /\ HandleExit(SavedSettings(echo), "menu")

\* load_player_data, at its input(): "1. Start new game"
Menu2New ==
    /\ pc = "menu2"
    /\ NewGame
    /\ ReturnFromMenu(SavedSettings(echo))
    /\ UNCHANGED <<columns, inputVars, listening, cursor, file, exitBy, tickVars>>

\* "2. Load old game": json.load raises on a corrupt file and nothing
\* catches it
Menu2Load ==
    /\ pc = "menu2"
    /\ IF file.kind = "corrupt"
       THEN /\ pc' = "crashed"
            /\ exitBy' = "error"
            /\ OLD_SETTINGS' = SavedSettings(echo)
            /\ echo' = FALSE
            /\ UNCHANGED <<depth, gameVars, origin>>
       ELSE /\ PLAYER_POSITION' = GetInt(file, "position", 0)
            /\ SCORE' = GetInt(file, "score", 0)
            /\ PLAYER_LIVES' = GetInt(file, "lives", START_LIVES)
            /\ enemies' = GetEnemies(file)
            /\ GAME_STATUS' = TRUE
            /\ origin' = "loaded"
            /\ UNCHANGED <<boxes, ATTACK_MESSAGE_SHOWN, exitBy>>
            /\ ReturnFromMenu(SavedSettings(echo))
    /\ UNCHANGED <<columns, inputVars, listening, cursor, file, tickVars>>

\* "3. Back": show_menu is called from inside load_player_data
Menu2Back ==
    /\ pc = "menu2"
    /\ depth < MaxDepth
    /\ pc' = "menu"
    /\ depth' = depth + 1
    /\ UNCHANGED <<gameVars, columns, origin, inputVars, listening, termVars, file,
                   exitBy, tickVars>>

\* ------------------------------------------------------------ main loop

\* `while GAME_STATUS:` then hide_cursor, clear_screen and Map.draw, which
\* ends with check_attack_option and check_new_map
Draw ==
    /\ pc = "draw"
    /\ GAME_STATUS
    /\ cursor' = FALSE
    /\ IF HintPrinted(PLAYER_POSITION, enemies, ATTACK_MESSAGE_SHOWN)
       THEN hintsShown < MaxHints /\ hintsShown' = hintsShown + 1
       ELSE UNCHANGED hintsShown
    /\ ATTACK_MESSAGE_SHOWN' = HintLatch(PLAYER_POSITION, enemies, ATTACK_MESSAGE_SHOWN)
    /\ IF PLAYER_POSITION = columns - 1
       THEN /\ PLAYER_POSITION' = 0
            /\ enemies' \in GenEnemies(columns)
            /\ boxes' \in GenBoxes(columns)
       ELSE UNCHANGED <<PLAYER_POSITION, enemies, boxes>>
    /\ newMap' = (PLAYER_POSITION = columns - 1)
    /\ pc' = "enemies"
    /\ UNCHANGED <<depth, PLAYER_LIVES, SCORE, GAME_STATUS, columns, origin, inputVars,
                   listening, OLD_SETTINGS, echo, file, exitBy, tickKeys, tickShift,
                   boxOpened>>

\* the loop has ended: input_handler.stop() and restore_echo
Shutdown ==
    /\ pc = "draw"
    /\ ~GAME_STATUS
    /\ listening' = FALSE
    /\ echo' = RestoredEcho(OLD_SETTINGS, echo)
    /\ pc' = "done"
    /\ exitBy' = "loop"
    /\ UNCHANGED <<depth, gameVars, columns, origin, inputVars, OLD_SETTINGS, cursor,
                   file, tickVars>>

\* map_instance.move_enemies_towards_player()
EnemyAdvance ==
    /\ pc = "enemies"
    /\ LET r == MoveEnemies(enemies, PLAYER_LIVES, PLAYER_POSITION)
       IN  /\ enemies' = r.enemies
           /\ PLAYER_LIVES' = r.lives
           /\ GAME_STATUS' = IF r.over THEN FALSE ELSE GAME_STATUS
    /\ pc' = "attack"
    /\ UNCHANGED <<depth, PLAYER_POSITION, SCORE, boxes, ATTACK_MESSAGE_SHOWN,
                   columns, origin, inputVars, listening, termVars, file, exitBy, tickVars>>

\* what a box may hold, as far as the counters are followed
OpenRewards ==
    { r \in Rewards :
        /\ r = "Extra Life" => PLAYER_LIVES < MaxLives
        /\ r = "Score Boost" => SCORE + BOOST_SCORE <= MaxScore
        /\ r = "Penalty" => PLAYER_LIVES > 0 - LivesBelowZero }

\* the attack / box block, with `e` the outcome of "e" in keys_pressed
AttackStep(e) ==
    /\ pc = "attack"
    /\ LET t == AttackTarget(PLAYER_POSITION, enemies)
       IN  IF e /\ t # <<>>
           THEN /\ SCORE + KILL_SCORE <= MaxScore
                /\ enemies' = RemoveFirst(enemies, t[1])
                /\ SCORE' = SCORE + KILL_SCORE
                /\ UNCHANGED <<boxes, PLAYER_LIVES, boxOpened>>
           ELSE IF e /\ InSeq(PLAYER_POSITION, boxes)
           THEN /\ boxes' = OpenedBox(boxes, PLAYER_POSITION)
                /\ boxOpened' = TRUE
                /\ \E reward \in OpenRewards :
                     /\ PLAYER_LIVES' = CASE reward = "Extra Life" -> PLAYER_LIVES + 1
                                          [] reward = "Penalty" -> PLAYER_LIVES - 1
                                          [] OTHER -> PLAYER_LIVES
                     /\ SCORE' = IF reward = "Score Boost" THEN SCORE + BOOST_SCORE
                                 ELSE SCORE
                /\ UNCHANGED enemies
           ELSE UNCHANGED <<enemies, SCORE, boxes, PLAYER_LIVES, boxOpened>>
    /\ tickKeys' = keys_pressed \cap {"a", "d"}
    /\ tickShift' = shift_pressed
    /\ pc' = "move"
    /\ UNCHANGED <<depth, PLAYER_POSITION, GAME_STATUS, ATTACK_MESSAGE_SHOWN,
                   columns, origin, inputVars, listening, termVars, file, exitBy,
                   newMap, hintsShown>>

\* the movement block, with a, d the outcomes of the two keys_pressed tests
\* and shift the value of shift_pressed
MoveStep(a, d, shift) ==
    /\ pc = "move"
    /\ PLAYER_POSITION' = MovePlayer(PLAYER_POSITION, a, d, shift, columns)
    /\ pc' = "draw"
    /\ tickKeys' = {}
    /\ tickShift' = FALSE
    /\ newMap' = FALSE
    /\ boxOpened' = FALSE
    /\ UNCHANGED <<depth, PLAYER_LIVES, SCORE, enemies, boxes, GAME_STATUS,
                   ATTACK_MESSAGE_SHOWN, columns, origin, inputVars, listening, termVars,
                   file, exitBy, hintsShown>>

\* the loop reading the listener's set
Attack == AttackStep("e" \in keys_pressed)
Move == MoveStep("a" \in keys_pressed, "d" \in keys_pressed, shift_pressed)

\* -------------------------------------------------------- specifications

\* start-up, first step: OLD_SETTINGS = SystemCall.disable_echo()
StartEcho ==
    /\ pc = "start"
    /\ OLD_SETTINGS' = SavedSettings(echo)
    /\ echo' = FALSE
    /\ pc' = "listener"
    /\ UNCHANGED <<depth, gameVars, columns, origin, inputVars, listening, cursor, file,
                   exitBy, tickVars>>

\* start-up, second step: SystemInputs() starts the listener, or raises and
\* ends the process (nothing catches it); then Map() generates the first
\* map and show_menu restores the echo for its first prompt
StartListener(ok) ==
    /\ pc = "listener"
    /\ IF ok
       THEN /\ listening' = TRUE
            /\ enemies' \in GenEnemies(columns)
            /\ boxes' \in GenBoxes(columns)
            /\ echo' = RestoredEcho(OLD_SETTINGS, echo)
            /\ OLD_SETTINGS' = "None"
            /\ pc' = "menu"
            /\ UNCHANGED exitBy
       ELSE /\ pc' = "aborted"
            /\ exitBy' = "error"
            /\ UNCHANGED <<listening, enemies, boxes, echo, OLD_SETTINGS>>
    /\ UNCHANGED <<depth, PLAYER_POSITION, PLAYER_LIVES, SCORE, GAME_STATUS,
                   ATTACK_MESSAGE_SHOWN, columns, origin, inputVars, cursor, file,
                   tickVars>>

\* the state when the module's start-up code begins, after the signal
\* handlers are registered: the globals as initialised, the terminal as the
\* shell left it, no listener yet
InitWith(widths, files) ==
    /\ pc = "start"
    /\ depth = 0
    /\ PLAYER_POSITION = 0
    /\ PLAYER_LIVES = START_LIVES
    /\ SCORE = 0
    /\ columns \in widths
    /\ enemies = <<>>
    /\ boxes = <<>>
    /\ GAME_STATUS = FALSE
    /\ ATTACK_MESSAGE_SHOWN = FALSE
    /\ keys_pressed = {}
    /\ shift_pressed = FALSE
    /\ listening = FALSE
    /\ OLD_SETTINGS = "None"
    /\ echo = TRUE
    /\ cursor = TRUE
    /\ file \in files
    /\ exitBy = ""
    /\ origin = ""
    /\ tickKeys = {}
    /\ tickShift = FALSE
    /\ newMap = FALSE
    /\ boxOpened = FALSE
    /\ hintsShown = 0

\* a save left by an earlier session
OldSave == Dump(1, 0, 1, <<2, 3>>)

Init == InitWith(MinWidth..MaxWidth, {NoFile, CorruptFile, OldSave})

Next ==
    \/ StartEcho
    \/ \E ok \in BOOLEAN : StartListener(ok)
    \/ \E key \in AllKeys : on_press(key)
    \/ \E key \in AllKeys : on_release(key)
    \/ MenuStart
    \/ \E choice \in MenuChoices : MenuAgain(choice)
    \/ MenuExit
    \/ Menu2New
    \/ Menu2Load
    \/ Menu2Back
    \/ Draw
    \/ EnemyAdvance
    \/ Attack
    \/ Move
    \/ Shutdown
    \/ Signal

Spec == Init /\ [][Next]_vars

\* Sessions in a terminal wide enough for enemies to spawn, from start-up to
\* the end of the loop. The listener is not followed key by key here: between
\* two reads of the loop it can bring its set to any value, so each read may
\* see any outcome. Signals, which only end a session, are left to Spec.
AttackAny == \E e \in BOOLEAN : AttackStep(e)
MoveAny == \E a \in BOOLEAN, d \in BOOLEAN, shift \in BOOLEAN : MoveStep(a, d, shift)

InitWide == InitWith({MaxWidth, WideWidth}, {NoFile})

NextWide ==
    \/ StartEcho
    \/ \E ok \in BOOLEAN : StartListener(ok)
    \/ MenuStart
    \/ Draw
    \/ EnemyAdvance
    \/ AttackAny
    \/ MoveAny
    \/ Shutdown

SpecWide == InitWide /\ [][NextWide]_vars

\* Sessions of a new game followed as long as they run, for what the loop
\* does in the end. The main thread is never held up for good: every step of
\* the loop it has reached is taken (the sleeps in it are finite). Nothing is
\* assumed of the user: no key event, no menu choice ever has to come.
InitLive == InitWith(MinWidth..MaxWidth, {NoFile})

NextLive ==
    \/ StartEcho
    \/ \E ok \in BOOLEAN : StartListener(ok)
    \/ \E key \in AllKeys : on_press(key)
    \/ \E key \in AllKeys : on_release(key)
    \/ MenuStart
    \/ Draw
    \/ EnemyAdvance
    \/ Attack
    \/ Move

SpecLive ==
    /\ InitLive
    /\ [][NextLive]_vars
    /\ WF_vars(Draw)
    /\ WF_vars(EnemyAdvance)
    /\ WF_vars(Attack)
    /\ WF_vars(Move)

\* ----------------------------------------------------------------- claims

InLoop == pc \in {"draw", "enemies", "attack", "move"}
NoKeyHeld == keys_pressed = {} /\ ~shift_pressed

\* C1: in a session started as a new game the player is on the map,
\* 0 <= PLAYER_POSITION < columns, at every phase of every tick, whatever
\* keys are held.
C1_PositionOnMap ==
    (InLoop /\ origin = "new") =>
        (0 <= PLAYER_POSITION /\ PLAYER_POSITION < columns)

\* C2: PLAYER_LIVES never goes below 0, whatever the order of enemy hits
\* and box penalties.
C2_LivesNotNegative == PLAYER_LIVES >= 0

Dist(x, y) == IF x < y THEN y - x ELSE x - y

\* the enemies of the list that are not on the player, by index
Beside(es, pos) == { i \in 1..Len(es) : es[i] # pos }

\* C3: in every enemy-advance step each enemy either stays in the list,
\* one column closer to the player, or was on the player and is removed
\* with one life lost for it; never both, never neither.
C3_EnemyAdvance ==
    [][(pc = "enemies" /\ pc' = "attack") =>
        LET pos == PLAYER_POSITION
            stay == Beside(enemies, pos)
        IN  /\ Len(enemies') = Cardinality(stay)
            /\ PLAYER_LIVES' = PLAYER_LIVES - (Len(enemies) - Cardinality(stay))
            /\ \A i \in stay :
                 LET k == Cardinality({ j \in stay : j <= i })
                 IN  Dist(enemies'[k], pos) = Dist(enemies[i], pos) - 1]_vars

Count(x, s) == Cardinality({ i \in 1..Len(s) : s[i] = x })
Distinct(s) == \A i, j \in 1..Len(s) : i # j => s[i] # s[j]

\* C4: the attack of one tick removes at most one enemy, scores exactly
\* 100 for it, and the enemy removed is the first found at the player's
\* column, then the column to the left, then the column to the right; with
\* no enemy on these columns the attack changes neither enemies nor score
\* (the score then moves only by a box's boost).
C4_AttackResolution ==
    [][(pc = "attack" /\ pc' = "move") =>
        LET pos == PLAYER_POSITION
            near == { x \in {pos - 1, pos, pos + 1} : Count(x, enemies) > 0 }
            first == IF pos \in near THEN pos
                     ELSE IF pos - 1 \in near THEN pos - 1 ELSE pos + 1
        IN  IF Len(enemies') # Len(enemies)
            THEN /\ near # {}
                 /\ Len(enemies') = Len(enemies) - 1
                 /\ \A x \in { enemies[i] : i \in 1..Len(enemies) } :
                      Count(x, enemies') = Count(x, enemies) - (IF x = first THEN 1 ELSE 0)
                 /\ SCORE' = SCORE + 100
                 /\ boxes' = boxes
            ELSE /\ enemies' = enemies
                 /\ \/ SCORE' = SCORE
                    \/ /\ near = {}
                       /\ Count(pos, boxes) > 0 /\ Count(pos, boxes') = 0
                       /\ SCORE' = SCORE + 50]_vars

\* a kill has been scored and another enemy still stands next to the player
C4_Witness ==
    /\ pc = "move"
    /\ SCORE = 100
    /\ Len(enemies) = 1
    /\ enemies[1] = PLAYER_POSITION + 1
    /\ PLAYER_LIVES = START_LIVES

C6_BoxOpenedOnce ==
    [][/\ (/\ pc = "attack" /\ pc' = "move"
           /\ "e" \in keys_pressed
           /\ \A x \in {PLAYER_POSITION - 1, PLAYER_POSITION, PLAYER_POSITION + 1} :
                Count(x, enemies) = 0
           /\ Count(PLAYER_POSITION, boxes) > 0)
          => /\ Count(PLAYER_POSITION, boxes') = 0
             /\ Len(boxes') = Len(boxes) - 1
       /\ ~(pc = "listener" \/ (pc = "draw" /\ PLAYER_POSITION = columns - 1))
          => \A i \in 1..Len(boxes') : Count(boxes'[i], boxes) > 0]_vars

\* a new game without enemies in which a life is gone: a cursed box was
\* opened, and it is off the map
C6_Witness ==
    /\ pc = "move"
    /\ origin = "new"
    /\ file.kind = "absent"
    /\ "e" \in keys_pressed
    /\ PLAYER_LIVES = START_LIVES - 1
    /\ PLAYER_POSITION = 0
    /\ boxes = <<>>

\* C7 as claimed: while no key is held, the loop leaves PLAYER_POSITION and
\* SCORE as they are and takes a life only in an enemy collision.
C7_IdleTicks ==
    [][(InLoop /\ NoKeyHeld) =>
        /\ PLAYER_POSITION' = PLAYER_POSITION
        /\ SCORE' = SCORE
        /\ PLAYER_LIVES' # PLAYER_LIVES =>
             (pc = "enemies" /\ Count(PLAYER_POSITION, enemies) > 0
              /\ PLAYER_LIVES' < PLAYER_LIVES)]_vars

\* C7 amended: while no key is held, the loop leaves SCORE as it is, takes
\* a life only in an enemy collision, and moves the player only in the map
\* transition, from the right edge to column 0.
C7_IdleTicksButTransition ==
    [][(InLoop /\ NoKeyHeld) =>
        /\ \/ PLAYER_POSITION' = PLAYER_POSITION
           \/ (pc = "draw" /\ PLAYER_POSITION = columns - 1 /\ PLAYER_POSITION' = 0)
        /\ SCORE' = SCORE
        /\ PLAYER_LIVES' # PLAYER_LIVES =>
             (pc = "enemies" /\ Count(PLAYER_POSITION, enemies) > 0
              /\ PLAYER_LIVES' < PLAYER_LIVES)]_vars

\* the movement block has run with no key held, in the middle of a map
C7_Witness ==
    /\ pc = "draw"
    /\ GAME_STATUS
    /\ NoKeyHeld
    /\ columns = MaxWidth
    /\ PLAYER_POSITION = 1
    /\ cursor = FALSE

\* C8: what load_player_data reads back from a file that save_player_data
\* has just written is the position, score, lives and enemies of the moment
\* of the save; the file holds nothing else, and loading leaves boxes and
\* the map width as they are.
C8_SaveLoadRoundTrip ==
    [][/\ file' # file
          => /\ GetInt(file', "position", 0) = PLAYER_POSITION
             /\ GetInt(file', "score", 0) = SCORE
             /\ GetInt(file', "lives", 3) = PLAYER_LIVES
             /\ GetEnemies(file') = enemies
             /\ DOMAIN file'.data = {"position", "score", "lives", "enemies"}
       /\ (pc = "menu2" /\ origin' = "loaded" /\ (pc' = "draw" \/ depth' < depth))
          => /\ PLAYER_POSITION' = GetInt(file, "position", 0)
             /\ SCORE' = GetInt(file, "score", 0)
             /\ PLAYER_LIVES' = GetInt(file, "lives", 3)
             /\ enemies' = GetEnemies(file)
             /\ boxes' = boxes
             /\ columns' = columns]_vars

\* a loaded game saved again, with the player left of the map and both
\* enemies alive
C8_Witness ==
    /\ pc = "exited"
    /\ origin = "loaded"
    /\ PLAYER_POSITION = -1
    /\ Len(enemies) = 2
    /\ file = Dump(PLAYER_POSITION, SCORE, PLAYER_LIVES, enemies)

\* C9: when a signal has ended the process, the listener is stopped, echo
\* and cursor are restored and the game state is in the file.
C9_SignalExit ==
    (pc = "exited" /\ exitBy = "signal") =>
        /\ ~listening
        /\ echo
        /\ cursor
        /\ file = Dump(PLAYER_POSITION, SCORE, PLAYER_LIVES, enemies)

\* C10: however the session ends (exit in the menu, signal, game over), the
\* file holds the game state when the process terminates.
C10_SavedAtEveryExit ==
    pc \in {"exited", "done"} =>
        file = Dump(PLAYER_POSITION, SCORE, PLAYER_LIVES, enemies)

\* C11: on every way out of the process (end of the loop, exit in the menu,
\* signal, the exception of an unreadable save) the terminal echo is
\* enabled again when the process terminates.
C11_EchoRestoredAtExit ==
    pc \in {"exited", "done", "crashed"} => echo

\* C12: every input-dependent decision of a tick is taken from one reading
\* of the listener's set and flag, so an event the listener delivers in the
\* middle of the tick does not change what the tick does: the movement of a
\* tick is the one the keys and the flag call for as they stood when the
\* tick first read them, at its attack check.
C12_OneSnapshotPerTick ==
    [][(pc = "move" /\ pc' = "draw") =>
        PLAYER_POSITION' = MovePlayer(PLAYER_POSITION, "a" \in tickKeys,
                                      "d" \in tickKeys, tickShift, columns)]_vars

\* C13: "2. Load old game" on a corrupt save is taken as no save: the
\* process does not fail and the game starts with position 0, score 0,
\* 3 lives and no enemies.
C13_CorruptSaveFallsBack ==
    [][(Menu2Load /\ file.kind = "corrupt") =>
        /\ pc' # "crashed"
        /\ GAME_STATUS'
        /\ PLAYER_POSITION' = 0
        /\ SCORE' = 0
        /\ PLAYER_LIVES' = 3
        /\ enemies' = <<>>]_vars

\* C14: the release of a key of ALLOWED_KEYS that is not held ends without
\* an error and leaves the set of held keys and the shift flag as they are,
\* in every state the listener can be in.
C14_ReleaseNotHeld ==
    \A key \in ALLOWED_KEYS \ keys_pressed :
        Release(keys_pressed, shift_pressed, key) =
            [keys |-> keys_pressed, shift |-> shift_pressed, error |-> FALSE]

\* the listener is alive, the left shift is held and the flag is set; the
\* right shift, "a", "d" and "e" are not held
C14_Witness ==
    /\ listening
    /\ pc = "attack"
    /\ keys_pressed = {"shift_l"}
    /\ shift_pressed

\* C15: in a tick in which the map transition has fired, the enemy advance,
\* the attack / box block and the movement do not run: the player stays on
\* column 0, and enemies, boxes, score and lives stay as the transition left
\* them, whatever keys are held.
C15_TransitionEndsTick ==
    [][newMap => UNCHANGED <<PLAYER_POSITION, enemies, boxes, SCORE, PLAYER_LIVES>>]_vars

\* C16: after the enemy hit that takes the lives to 0 (GAME_STATUS is false
\* in the middle of a tick), the attack / box block and the movement of
\* that tick do not run: score, boxes and position stay as they were at the
\* hit, whatever keys are held.
C16_FatalHitEndsTick ==
    [][(~GAME_STATUS /\ pc \in {"attack", "move"}) =>
        UNCHANGED <<SCORE, boxes, PLAYER_POSITION>>]_vars

\* C17: no tick begins with PLAYER_LIVES = 0: when the lives have reached 0,
\* by an enemy hit or by a box penalty, the loop condition is false.
C17_NoTickAtZeroLives ==
    (pc = "draw" /\ PLAYER_LIVES = 0) => ~GAME_STATUS

\* C18: in a session started as a new game the enemies are on pairwise
\* distinct columns, all of them in [0, columns).
C18_EnemiesDistinctOnMap ==
    (InLoop /\ origin = "new") =>
        /\ Distinct(enemies)
        /\ \A i \in 1..Len(enemies) : 0 <= enemies[i] /\ enemies[i] < columns

\* C19: in a tick in which a box was opened the movement block does not
\* move the player, even with "a" or "d" held.
C19_BoxSuppressesMove ==
    [][(pc = "move" /\ boxOpened) => PLAYER_POSITION' = PLAYER_POSITION]_vars

\* C20: "You can attack" is printed at most once in a session, however often
\* the player comes next to an enemy again and across map transitions.
C20_HintAtMostOnce == hintsShown <= 1

\* a later encounter that prints nothing: the player has run past one enemy,
\* which the hint was printed for and which is now two columns or more
\* behind, and has just been drawn next to the other one
C20_Witness ==
    /\ pc = "enemies"
    /\ ~newMap
    /\ hintsShown = 1
    /\ Len(enemies) = 2
    /\ enemies[1] < PLAYER_POSITION - 1
    /\ enemies[2] = PLAYER_POSITION + 1

\* C21: at the prompt of load_player_data, one choice of "1. Start new game"
\* or of "2. Load old game" (of a readable save) starts the main loop with
\* no further prompt, whatever was chosen in the menus before.
C21_OneChoiceStartsGame ==
    [][((Menu2New \/ Menu2Load) /\ file.kind # "corrupt") => pc' = "draw"]_vars

\* C22: the listener is started before the terminal is touched: as long as
\* no listener has been started, and when its start has failed, the echo is
\* enabled and the cursor is shown.
C22_ListenerBeforeTerminal ==
    (pc \in {"start", "listener", "aborted"} /\ ~listening) => (echo /\ cursor)


\* C23: shift_pressed is true exactly when the left or the right shift key
\* is in keys_pressed, after any sequence of presses and releases.
C23_ShiftFlagMatchesKeys ==
    shift_pressed <=> (keys_pressed \cap ShiftKeys # {})

\* C24: in a session whose loop runs for ever, if from some tick on "d" is
\* held and "a" is not, with or without shift, the player reaches the right
\* edge and the map transition puts it back on column 0, again and again.
C24_HeldRightReachesEdge ==
    <>[](InLoop /\ "d" \in keys_pressed /\ "a" \notin keys_pressed) => []<>newMap

====
